---- MODULE Spec2Model ----
(***************************************************************************)
(* Model of scripts/audit_mount_calls.py: the audit of MountManager        *)
(* callsites for explicit operationID forwarding.                          *)
(*                                                                         *)
(* File texts are sequences of one-character strings.  Offsets are the     *)
(* 0-based offsets of the Python source: the character at offset i of a    *)
(* text t is t[i + 1].                                                     *)
(***************************************************************************)
EXTENDS Integers, Sequences, FiniteSets, TLC

VARIABLES rootExists, fs, pc, swift_files, fileIdx, all_calls, printed,
          stdout, stderr, exitCode

vars == <<rootExists, fs, pc, swift_files, fileIdx, all_calls, printed,
          stdout, stderr, exitCode>>

(***************************************************************************)
(* Bounds of the checked inputs.                                           *)
(***************************************************************************)
MaxFrags == 4

MaxFiles == 2

MaxParen == 5

(***************************************************************************)
(* Python string primitives.                                               *)
(***************************************************************************)
\* str[i], with Python's wrap-around of a negative index.
At(text, i) == IF i < 0 THEN text[Len(text) + i + 1] ELSE text[i + 1]

\* str[a:b], with Python's clamping of the two ends.
Slice(text, a, b) ==
    LET n  == Len(text)
        a0 == IF a < 0 THEN (IF a + n < 0 THEN 0 ELSE a + n) ELSE (IF a > n THEN n ELSE a)
        b0 == IF b < 0 THEN (IF b + n < 0 THEN 0 ELSE b + n) ELSE (IF b > n THEN n ELSE b)
    IN  SubSeq(text, a0 + 1, b0)

\* text.startswith(word, i)
StartsWith(text, word, i) ==
    /\ i >= 0
    /\ i + Len(word) <= Len(text)
    /\ \A k \in 1..Len(word) : text[i + k] = word[k]

\* A search that ignores its start offset.
find_from_zero(text, ch, start) ==
    LET hits == {j \in 0..(Len(text) - 1) : text[j + 1] = ch}
    IN  IF hits = {} THEN -1 ELSE CHOOSE x \in hits : \A y \in hits : x <= y

RECURSIVE find(_, _, _)
\* str.find(ch, start) for a one-character needle: the lowest offset
\* >= start holding ch, -1 when there is none.
find(text, ch, start) ==
    IF start >= Len(text) THEN -1
    ELSE IF At(text, start) = ch THEN start
    ELSE find(text, ch, start + 1)

RECURSIVE count(_, _, _, _)
\* str.count(ch, start, end) for a one-character needle.
count(text, ch, start, end) ==
    IF start >= end \/ start >= Len(text) THEN 0
    ELSE (IF At(text, start) = ch THEN 1 ELSE 0) + count(text, ch, start + 1, end)

RECURSIVE SearchFrom_short(_, _, _)
\* A scan that stops one offset early and misses a needle ending the text.
SearchFrom_short(text, needle, i) ==
    IF i + Len(needle) >= Len(text) THEN FALSE
    ELSE IF StartsWith(text, needle, i) THEN TRUE
    ELSE SearchFrom_short(text, needle, i + 1)

RECURSIVE SearchFrom(_, _, _)
\* The scan behind `needle in text`: is there an occurrence at or after i.
SearchFrom(text, needle, i) ==
    IF i + Len(needle) > Len(text) THEN FALSE
    ELSE IF StartsWith(text, needle, i) THEN TRUE
    ELSE SearchFrom(text, needle, i + 1)

\* needle in text
Contains(text, needle) == SearchFrom(text, needle, 0)

\* Characters matched by \s (the ASCII ones TLA+ strings can express).
Whitespace == {" ", "\t", "\n", "\r", "\f"}

\* Line boundaries of str.splitlines (those TLA+ strings can express).
LineBreaks == {"\n", "\r", "\f"}

RECURSIVE splitlines(_)
\* str.splitlines(): the lines without their terminators; "\r\n" is one
\* terminator, and a final terminator opens no empty last line.
splitlines(s) ==
    IF s = <<>> THEN <<>>
    ELSE LET brk == {k \in 1..Len(s) : s[k] \in LineBreaks}
         IN  IF brk = {} THEN <<s>>
             ELSE LET k == CHOOSE x \in brk : \A y \in brk : x <= y
                      w == IF s[k] = "\r" /\ k < Len(s) /\ s[k + 1] = "\n" THEN 2 ELSE 1
                  IN  <<SubSeq(s, 1, k - 1)>> \o splitlines(SubSeq(s, k + w, Len(s)))

RECURSIVE lstrip(_)
lstrip(s) == IF s # <<>> /\ Head(s) \in Whitespace THEN lstrip(Tail(s)) ELSE s

RECURSIVE rstrip(_)
rstrip(s) ==
    IF s # <<>> /\ s[Len(s)] \in Whitespace THEN rstrip(SubSeq(s, 1, Len(s) - 1)) ELSE s

\* str.strip()
strip(s) == rstrip(lstrip(s))

(***************************************************************************)
(* CALL_PATTERN                                                            *)
(***************************************************************************)
\* The literal head of the pattern, `mountManager\.`
PatternHead == <<"m","o","u","n","t","M","a","n","a","g","e","r",".">>

\* The alternatives of group 1, in the order the pattern tries them.
PatternMethods ==
    << <<"c","o","n","n","e","c","t">>,
       <<"d","i","s","c","o","n","n","e","c","t">>,
       <<"r","e","f","r","e","s","h","S","t","a","t","u","s">>,
       <<"f","o","r","c","e","S","t","o","p","P","r","o","c","e","s","s","e","s">>,
       <<"t","e","s","t","C","o","n","n","e","c","t","i","o","n">> >>

\* The marker of `"operationID:" in call_text`
Marker == <<"o","p","e","r","a","t","i","o","n","I","D",":">>

RECURSIVE SkipSpace(_, _)
\* `\s*`: the offset after the longest run of whitespace from i.
SkipSpace(text, i) ==
    IF i < Len(text) /\ At(text, i) \in Whitespace THEN SkipSpace(text, i + 1) ELSE i

NoMatch == [start |-> -1, end |-> -1, group1 |-> <<>>]

\* Does alternative k of group 1, then `\s*\(`, match at offset i.
AltMatches(text, i, k) ==
    /\ StartsWith(text, PatternMethods[k], i)
    /\ LET j == SkipSpace(text, i + Len(PatternMethods[k]))
       IN  j < Len(text) /\ At(text, j) = "("

\* CALL_PATTERN.match(text, i): the match anchored at offset i, or NoMatch.
CALL_PATTERN_match(text, i) ==
    IF ~StartsWith(text, PatternHead, i) THEN NoMatch
    ELSE LET h    == i + Len(PatternHead)
             alts == {k \in 1..Len(PatternMethods) : AltMatches(text, h, k)}
         IN  IF alts = {} THEN NoMatch
             ELSE LET k == CHOOSE x \in alts : \A y \in alts : x <= y
                  IN  [start  |-> i,
                       end    |-> SkipSpace(text, h + Len(PatternMethods[k])) + 1,
                       group1 |-> PatternMethods[k]]

RECURSIVE SkipCall(_, _, _)
\* The index just past the call opened at offset i (depth counted from there).
SkipCall(text, i, depth) ==
    IF i >= Len(text) THEN Len(text)
    ELSE IF text[i + 1] = "(" THEN SkipCall(text, i + 1, depth + 1)
    ELSE IF text[i + 1] = ")"
         THEN (IF depth = 1 THEN i + 1 ELSE SkipCall(text, i + 1, depth - 1))
         ELSE SkipCall(text, i + 1, depth)

RECURSIVE finditer_past_call(_, _)
\* A scan that resumes after the extracted call text of each match.
finditer_past_call(text, pos) ==
    IF pos >= Len(text) THEN <<>>
    ELSE LET m == CALL_PATTERN_match(text, pos)
         IN  IF m = NoMatch THEN finditer_past_call(text, pos + 1)
             ELSE <<m>> \o finditer_past_call(text, SkipCall(text, m.end - 1, 0))

RECURSIVE finditer(_, _)
\* CALL_PATTERN.finditer(text), from offset pos: the non-overlapping matches
\* in order of occurrence; the search resumes at the end of each match.
finditer(text, pos) ==
    IF pos >= Len(text) THEN <<>>
    ELSE LET m == CALL_PATTERN_match(text, pos)
         IN  IF m = NoMatch THEN finditer(text, pos + 1)
             ELSE <<m>> \o finditer(text, m.end)

(***************************************************************************)
(* parse_call                                                              *)
(***************************************************************************)
RECURSIVE parse_loop_empty_tail(_, _, _, _)
\* A loop that gives up with an empty call text when the text runs out.
parse_loop_empty_tail(text, start_idx, i, depth) ==
    IF ~(i < Len(text)) THEN <<<<>>, Len(text)>>
    ELSE LET ch == At(text, i)
         IN  IF ch = "(" THEN parse_loop_empty_tail(text, start_idx, i + 1, depth + 1)
             ELSE IF ch = ")"
                  THEN IF depth - 1 = 0
                       THEN <<Slice(text, start_idx, i + 1), i + 1>>
                       ELSE parse_loop_empty_tail(text, start_idx, i + 1, depth - 1)
                  ELSE parse_loop_empty_tail(text, start_idx, i + 1, depth)

RECURSIVE parse_loop(_, _, _, _)
\* The while loop of parse_call, entered with index i and the given depth.
parse_loop(text, start_idx, i, depth) ==
    IF ~(i < Len(text)) THEN <<Slice(text, start_idx, Len(text)), Len(text)>>
    ELSE LET ch == At(text, i)
         IN  IF ch = "(" THEN parse_loop(text, start_idx, i + 1, depth + 1)
             ELSE IF ch = ")"
                  THEN IF depth - 1 = 0
                       THEN <<Slice(text, start_idx, i + 1), i + 1>>
                       ELSE parse_loop(text, start_idx, i + 1, depth - 1)
                  ELSE parse_loop(text, start_idx, i + 1, depth)

\* A parser without the depth counter: it stops at the first ")".
parse_call_first_close(text, start_idx) ==
    LET e == find(text, ")", start_idx)
    IN  IF e = -1 THEN <<Slice(text, start_idx, Len(text)), Len(text)>>
        ELSE <<Slice(text, start_idx, e + 1), e + 1>>

\* parse_call(text, start_idx) = <<call_text, end_idx>>
parse_call(text, start_idx) == parse_loop(text, start_idx, start_idx, 0)

(***************************************************************************)
(* collect_calls                                                           *)
(***************************************************************************)
\* A Callsite whose marker test looks at the whole file text.
Callsite_file_marker(file_path, text, match) ==
    LET open_paren_index == find(text, "(", match.start)
        call_text        == parse_call(text, open_paren_index)[1]
    IN  [file             |-> file_path,
         method           |-> match.group1,
         line             |-> count(text, "\n", 0, match.start) + 1,
         call_text        |-> call_text,
         has_operation_id |-> Contains(text, Marker)]

\* A Callsite whose line is counted up to the opening parenthesis.
Callsite_paren_line(file_path, text, match) ==
    LET open_paren_index == find(text, "(", match.start)
        call_text        == parse_call(text, open_paren_index)[1]
    IN  [file             |-> file_path,
         method           |-> match.group1,
         line             |-> count(text, "\n", 0, open_paren_index) + 1,
         call_text        |-> call_text,
         has_operation_id |-> Contains(call_text, Marker)]

\* The Callsite built in the loop body for one match.
Callsite(file_path, text, match) ==
    LET open_paren_index == find(text, "(", match.start)
        call_text        == parse_call(text, open_paren_index)[1]
    IN  [file             |-> file_path,
         method           |-> match.group1,
         line             |-> count(text, "\n", 0, match.start) + 1,
         call_text        |-> call_text,
         has_operation_id |-> Contains(call_text, Marker)]

\* collect_calls, given the text read from file_path.
collect_calls(file_path, text) ==
    LET ms == finditer(text, 0)
    IN  [k \in 1..Len(ms) |-> Callsite(file_path, text, ms[k])]

(***************************************************************************)
(* iter_swift_files                                                        *)
(***************************************************************************)
RECURSIVE sorted(_)
\* sorted(paths): paths are numbered in their lexicographic order.
sorted(S) ==
    IF S = {} THEN <<>>
    ELSE LET p == CHOOSE x \in S : \A y \in S : x <= y
         IN  <<p>> \o sorted(S \ {p})

\* sorted(root.rglob("*.swift")) over the tree fs.
iter_swift_files(tree) == sorted({p \in DOMAIN tree : tree[p].swift})

(***************************************************************************)
(* The checked inputs: the root may be missing; otherwise the tree holds   *)
(* files 1..n, numbered in the lexicographic order of their paths.         *)
(***************************************************************************)
RECURSIVE Flatten(_)
Flatten(ss) == IF ss = <<>> THEN <<>> ELSE Head(ss) \o Flatten(Tail(ss))

\* The pieces file texts are assembled from.
Frags ==
    { PatternHead, PatternMethods[1], <<"(">>, <<")">>, Marker, <<"\n">>, <<"a">>,
      <<"o","p","e","r","a","t","i","o","n","i","d",":">> }

FragTexts == {Flatten(ss) : ss \in UNION {[1..n -> Frags] : n \in 0..MaxFrags}}

\* A watched call head followed by every short string of parentheses.
ParenTexts ==
    {PatternHead \o PatternMethods[1] \o p :
        p \in UNION {[1..n -> {"(", ")", "a"}] : n \in 0..MaxParen}}

\* mountManager.connect(a, b, operationID: id)
SampleCompliant ==
    <<"m","o","u","n","t","M","a","n","a","g","e","r",".","c","o","n","n","e","c","t",
      "(","a",","," ","b",","," ","o","p","e","r","a","t","i","o","n","I","D",":"," ",
      "i","d",")">>

\* mountManager.connect(a, b)
SampleMissing ==
    <<"m","o","u","n","t","M","a","n","a","g","e","r",".","c","o","n","n","e","c","t",
      "(","a",","," ","b",")">>

\* mountManager.disconnect(\n    mountID,\n    operationID: opID\n)
SampleMultiline ==
    <<"m","o","u","n","t","M","a","n","a","g","e","r",".","d","i","s","c","o","n","n",
      "e","c","t","(","\n"," "," "," "," ","m","o","u","n","t","I","D",",","\n"," ",
      " "," "," ","o","p","e","r","a","t","i","o","n","I","D",":"," ","o","p","I","D",
      "\n",")">>

\* x\n mountManager.disconnect(\n    mountID,\n    operationID: opID\n)
SampleMultilineLater == <<"x", "\n", " ">> \o SampleMultiline

\* reconnectAll(x)
SampleLongerName == <<"r","e","c","o","n","n","e","c","t","A","l","l","(","x",")">>

\* x\nmountManager.testConnection(mountManager.refreshStatus(operationID: o))
SampleNested ==
    <<"x","\n">> \o PatternHead \o PatternMethods[5] \o <<"(">> \o PatternHead
      \o PatternMethods[3] \o <<"(">> \o Marker \o <<" ","o",")",")">>

\* mountManager.forceStopProcesses (operationID: a, operationID: b
SampleTwoMarkers ==
    PatternHead \o PatternMethods[4] \o <<" ","(">> \o Marker \o <<" ","a",","," ">>
      \o Marker \o <<" ","b">>

\* mountManager.connect(x\nmountManager.disconnect(operationID: o)
SampleUnbalanced ==
    PatternHead \o PatternMethods[1] \o <<"(","x","\n">> \o PatternHead
      \o PatternMethods[2] \o <<"(">> \o Marker \o <<" ","o",")">>

\* operationID: x\nmountManager.refreshStatus(operationID: x)
SampleMarkerOutside ==
    Marker \o <<" ","x","\n">> \o PatternHead \o PatternMethods[3] \o <<"(">>
      \o Marker \o <<" ","x",")">>

Samples ==
    { SampleCompliant, SampleMissing, SampleMultiline, SampleMultilineLater,
      SampleLongerName,
      SampleNested, SampleTwoMarkers, SampleUnbalanced, SampleMarkerOutside }

File(text) == [swift |-> TRUE, readable |-> TRUE, text |-> text]

\* What a path of a tree of several files may hold.
TreeEntries ==
    { File(SampleCompliant), File(SampleMissing), File(SampleLongerName),
      File(SampleNested),
      [swift |-> TRUE,  readable |-> FALSE, text |-> <<>>],
      [swift |-> FALSE, readable |-> TRUE,  text |-> SampleMissing] }

Start ==
    /\ pc = "start"
    /\ swift_files = <<>>
    /\ fileIdx = 0
    /\ all_calls = <<>>
    /\ printed = 0
    /\ stdout = <<>>
    /\ stderr = <<>>
    /\ exitCode = -1

Init ==
    /\ Start
    /\ \/ /\ rootExists = FALSE
          /\ fs = <<>>
       \/ /\ rootExists = TRUE
          /\ \E text \in FragTexts \cup ParenTexts \cup Samples : fs = <<File(text)>>
       \/ /\ rootExists = TRUE
          /\ \E n \in 0..MaxFiles : fs \in [1..n -> TreeEntries]

(***************************************************************************)
(* main                                                                    *)
(***************************************************************************)
\* The filter of `missing` with its negation dropped.
IsMissing_inverted(call) == call.has_operation_id

\* missing = [call for call in all_calls if not call.has_operation_id]
IsMissing(call) == ~call.has_operation_id

missing(calls) == SelectSeq(calls, IsMissing)

Line(kind, call, text, n) ==
    [kind |-> kind, file |-> call.file, line |-> call.line,
     method |-> call.method, text |-> text, count |-> n]

NoCall == [file |-> 0, line |-> 0, method |-> <<>>]

\* `if not root.exists()`: error to stderr, return 2.
RootMissing ==
    /\ pc = "start"
    /\ ~rootExists
    /\ stderr' = Append(stderr, Line("error", NoCall, <<>>, 0))
    /\ exitCode' = 2
    /\ pc' = "done"
    /\ UNCHANGED <<rootExists, fs, swift_files, fileIdx, all_calls, printed, stdout>>

\* The root exists: iter_swift_files(root) is evaluated once, before the loop.
Discover ==
    /\ pc = "start"
    /\ rootExists
    /\ swift_files' = iter_swift_files(fs)
    /\ pc' = "scan"
    /\ UNCHANGED <<rootExists, fs, fileIdx, all_calls, printed, stdout, stderr, exitCode>>

\* A scan loop that breaks off after the first file with a non-compliant call.
ScanFile_stop_on_missing ==
    /\ pc = "scan"
    /\ fileIdx < Len(swift_files)
    /\ LET p == swift_files[fileIdx + 1]
       IN  IF fs[p].readable
           THEN /\ all_calls' = all_calls \o collect_calls(p, fs[p].text)
                /\ fileIdx' = IF missing(collect_calls(p, fs[p].text)) # <<>>
                              THEN Len(swift_files) ELSE fileIdx + 1
                /\ pc' = pc
           ELSE /\ pc' = "raised"
                /\ UNCHANGED <<all_calls, fileIdx>>
    /\ UNCHANGED <<rootExists, fs, swift_files, printed, stdout, stderr, exitCode>>

\* One iteration of `for swift_file in ...: all_calls.extend(collect_calls(swift_file))`.
\* read_text raising ends the run with a traceback; main never returns.
ScanFile ==
    /\ pc = "scan"
    /\ fileIdx < Len(swift_files)
    /\ LET p == swift_files[fileIdx + 1]
       IN  IF fs[p].readable
           THEN /\ all_calls' = all_calls \o collect_calls(p, fs[p].text)
                /\ fileIdx' = fileIdx + 1
                /\ pc' = pc
           ELSE /\ pc' = "raised"
                /\ UNCHANGED <<all_calls, fileIdx>>
    /\ UNCHANGED <<rootExists, fs, swift_files, printed, stdout, stderr, exitCode>>

\* `if not all_calls`: the notice, return 0.
ReportNone ==
    /\ pc = "scan"
    /\ fileIdx = Len(swift_files)
    /\ all_calls = <<>>
    /\ stdout' = Append(stdout, Line("none", NoCall, <<>>, 0))
    /\ exitCode' = 0
    /\ pc' = "done"
    /\ UNCHANGED <<rootExists, fs, swift_files, fileIdx, all_calls, printed, stderr>>

\* The loop exit of the scan with callsites: on to `for call in all_calls`.
BeginReport ==
    /\ pc = "scan"
    /\ fileIdx = Len(swift_files)
    /\ all_calls # <<>>
    /\ pc' = "report"
    /\ UNCHANGED <<rootExists, fs, swift_files, fileIdx, all_calls, printed,
                   stdout, stderr, exitCode>>

\* One iteration of `for call in all_calls`: the status line of a callsite.
\* splitlines()[0] raises IndexError on an empty list.
PrintStatus ==
    /\ pc = "report"
    /\ printed < Len(all_calls)
    /\ LET call   == all_calls[printed + 1]
           status == IF call.has_operation_id THEN "OK" ELSE "MISSING operationID"
           lines  == splitlines(call.call_text)
       IN  IF lines = <<>>
           THEN /\ pc' = "raised"
                /\ UNCHANGED <<stdout, printed>>
           ELSE /\ stdout' = Append(stdout, Line(status, call, strip(lines[1]), 0))
                /\ printed' = printed + 1
                /\ pc' = pc
    /\ UNCHANGED <<rootExists, fs, swift_files, fileIdx, all_calls, stderr, exitCode>>

\* `if missing`: the FAIL summary to stderr, return 1.
ReportFail ==
    /\ pc = "report"
    /\ printed = Len(all_calls)
    /\ missing(all_calls) # <<>>
    /\ stderr' = Append(stderr, Line("FAIL", NoCall, <<>>, Len(missing(all_calls))))
    /\ exitCode' = 1
    /\ pc' = "done"
    /\ UNCHANGED <<rootExists, fs, swift_files, fileIdx, all_calls, printed, stdout>>

\* Otherwise: the PASS summary to stdout, return 0.
ReportPass ==
    /\ pc = "report"
    /\ printed = Len(all_calls)
    /\ missing(all_calls) = <<>>
    /\ stdout' = Append(stdout, Line("PASS", NoCall, <<>>, Len(all_calls)))
    /\ exitCode' = 0
    /\ pc' = "done"
    /\ UNCHANGED <<rootExists, fs, swift_files, fileIdx, all_calls, printed, stderr>>

Next ==
    \/ RootMissing
    \/ Discover
    \/ ScanFile
    \/ ReportNone
    \/ BeginReport
    \/ PrintStatus
    \/ ReportFail
    \/ ReportPass

Spec == Init /\ [][Next]_vars

(***************************************************************************)
(* Vocabulary of the properties.                                           *)
(***************************************************************************)
Min(S) == CHOOSE x \in S : \A y \in S : x <= y

\* The files the scan loop has been through.
Scanned == {swift_files[k] : k \in 1..fileIdx}

\* The Callsites of file p, in the order they were collected.
CallsOf(p) == LET OfFile(c) == c.file = p IN SelectSeq(all_calls, OfFile)

\* Offsets of text holding character ch within a..b.
Holding(text, ch, a, b) == {j \in a..b : j < Len(text) /\ At(text, j) = ch}

\* The depth counter after offset e, counted from offset s.
Depth(text, s, e) ==
    Cardinality(Holding(text, "(", s, e)) - Cardinality(Holding(text, ")", s, e))

\* Offsets at or after s where the depth counter is back at zero.
Closings(text, s) == {e \in s..(Len(text) - 1) : Depth(text, s, e) = 0}

\* One past the end of the argument list opened at offset s.
ListEnd(text, s) ==
    IF Closings(text, s) = {} THEN Len(text) ELSE Min(Closings(text, s)) + 1

\* Offsets at which the marker occurs in text.
MarkerAt(text) ==
    {j \in 0..(Len(text) - Len(Marker)) : SubSeq(text, j + 1, j + Len(Marker)) = Marker}

\* text without the Len(Marker) characters at offset j.
Without(text, j) == SubSeq(text, 1, j) \o SubSeq(text, j + Len(Marker) + 1, Len(text))

\* Offsets at which the pattern matches when anchored there.
Anchored(text) == {i \in 0..(Len(text) - 1) : CALL_PATTERN_match(text, i) # NoMatch}

\* The first opening parenthesis at or after offset i.
OpenOf(text, i) == Min(Holding(text, "(", i, Len(text) - 1))

\* Every file of the tree can be read.
AllReadable == \A p \in DOMAIN fs : fs[p].swift => fs[p].readable

\* Some watched call of some source file lacks the marker.
SomeNonCompliant ==
    \E p \in DOMAIN fs :
        /\ fs[p].swift
        /\ \E i \in Anchored(fs[p].text) :
              LET open == OpenOf(fs[p].text, i)
              IN  MarkerAt(SubSeq(fs[p].text, open + 1, ListEnd(fs[p].text, open))) = {}

Connect == PatternMethods[1]

(***************************************************************************)
(* C1: the exit code of main is a function of the input: 2 exactly when    *)
(* the root does not exist, and then no file has been discovered or        *)
(* scanned; otherwise 1 exactly when some watched call lacks the marker;   *)
(* otherwise 0.  A run in which main returns produces no other code.       *)
(***************************************************************************)
C1_ExitCode ==
    /\ exitCode \in {-1, 0, 1, 2}
    /\ (exitCode # -1) <=> (pc = "done")
    /\ pc = "done" =>
          exitCode = IF ~rootExists THEN 2 ELSE IF SomeNonCompliant THEN 1 ELSE 0
    /\ exitCode = 2 => swift_files = <<>> /\ fileIdx = 0 /\ all_calls = <<>>

C1_Witness ==
    /\ pc = "done"
    /\ exitCode = 1
    /\ \E k \in DOMAIN all_calls : all_calls[k].has_operation_id

(***************************************************************************)
(* C2: at every offset of an opening parenthesis parse_call returns the    *)
(* text up to and including the first offset where the depth counter is    *)
(* back at zero, with the index just past it, and the text up to the end   *)
(* when the counter never returns to zero; a balanced parenthesized        *)
(* expression followed by any text is returned exactly.                    *)
(***************************************************************************)
C2_ParseCall ==
    \A p \in DOMAIN fs :
        LET text == fs[p].text
        IN  \A s \in 0..(Len(text) - 1) :
                At(text, s) = "(" =>
                    /\ parse_call(text, s) =
                          <<SubSeq(text, s + 1, ListEnd(text, s)), ListEnd(text, s)>>
                    /\ \A e \in s..(Len(text) - 1) :
                          (/\ Depth(text, s, e) = 0
                           /\ \A d \in s..(e - 1) : Depth(text, s, d) > 0)
                          => parse_call(text, s)[1] = SubSeq(text, s + 1, e + 1)

C2_Witness ==
    /\ pc = "done"
    /\ \E k \in DOMAIN all_calls :
          /\ all_calls[k].call_text = <<"(", "(", ")", ")">>
          /\ fs[all_calls[k].file].text =
                PatternHead \o Connect \o <<"(", "(", ")", ")", "a">>

(***************************************************************************)
(* C3: a Callsite is flagged compliant exactly when its call text holds    *)
(* the marker operationID: in that exact case; the file                    *)
(* mountManager.connect(a, b, operationID: id) yields one compliant        *)
(* Callsite of method connect, and mountManager.connect(a, b) yields one   *)
(* non-compliant Callsite and exit code 1.                                 *)
(***************************************************************************)
C3_Compliance ==
    /\ \A k \in DOMAIN all_calls :
          all_calls[k].has_operation_id <=> (MarkerAt(all_calls[k].call_text) # {})
    /\ \A p \in Scanned :
          /\ fs[p].text = SampleCompliant =>
                CallsOf(p) = << [file |-> p, method |-> Connect, line |-> 1,
                                 call_text |-> SubSeq(SampleCompliant, 21, 43),
                                 has_operation_id |-> TRUE] >>
          /\ fs[p].text = SampleMissing =>
                /\ CallsOf(p) = << [file |-> p, method |-> Connect, line |-> 1,
                                    call_text |-> <<"(", "a", ",", " ", "b", ")">>,
                                    has_operation_id |-> FALSE] >>
                /\ pc = "done" => exitCode = 1

C3_Witness ==
    /\ pc = "done"
    /\ Len(fs) = 2
    /\ fs[1].text = SampleCompliant
    /\ fs[2].text = SampleMissing
    /\ Len(all_calls) = 2

(***************************************************************************)
(* C4 as stated: a marker inside the argument list of a watched call makes *)
(* the call compliant, and the same call is non-compliant in the text      *)
(* with that occurrence of the marker removed.                             *)
(***************************************************************************)
C4_Original ==
    \A p \in Scanned :
        LET text == fs[p].text
            ms   == finditer(text, 0)
        IN  \A k \in DOMAIN ms :
                LET open == OpenOf(text, ms[k].start)
                IN  \A q \in MarkerAt(text) :
                        (open < q /\ q + Len(Marker) <= ListEnd(text, open)) =>
                            /\ CallsOf(p)[k].has_operation_id
                            /\ ~collect_calls(p, Without(text, q))[k].has_operation_id

(***************************************************************************)
(* C4 as amended: a marker inside the argument list of a watched call      *)
(* makes the call compliant; in the text with that occurrence removed the  *)
(* same call has the same argument list less the marker, and it is         *)
(* non-compliant exactly when no occurrence of the marker is left in it.   *)
(***************************************************************************)
C4_Amended ==
    \A p \in Scanned :
        LET text == fs[p].text
            ms   == finditer(text, 0)
        IN  \A k \in DOMAIN ms :
                LET open == OpenOf(text, ms[k].start)
                IN  \A q \in MarkerAt(text) :
                        (open < q /\ q + Len(Marker) <= ListEnd(text, open)) =>
                            LET text2 == Without(text, q)
                                after == collect_calls(p, text2)[k]
                                rest  == SubSeq(text2, open + 1, ListEnd(text2, open))
                            IN  /\ CallsOf(p)[k].has_operation_id
                                /\ after.call_text = Without(CallsOf(p)[k].call_text, q - open)
                                /\ after.call_text = rest
                                /\ ~after.has_operation_id <=> (MarkerAt(rest) = {})

C4_Witness ==
    /\ pc = "done"
    /\ \E p \in Scanned :
          /\ fs[p].text = SampleCompliant
          /\ CallsOf(p)[1].has_operation_id
          /\ ~collect_calls(p, Without(SampleCompliant, 27))[1].has_operation_id
\* The characters of an identifier.
IdentChars ==
    {"a", "b", "c", "d", "e", "f", "g", "h", "i", "j", "k", "l", "m",
      "n", "o", "p", "q", "r", "s", "t", "u", "v", "w", "x", "y", "z",
      "A", "B", "C", "D", "E", "F", "G", "H", "I", "J", "K", "L", "M",
      "N", "O", "P", "Q", "R", "S", "T", "U", "V", "W", "X", "Y", "Z",
      "0", "1", "2", "3", "4", "5", "6", "7", "8", "9", "_" }

\* The k-th smallest element of a set of offsets.
Nth(S, k) == CHOOSE x \in S : Cardinality({y \in S : y < x}) = k - 1

Disconnect == PatternMethods[2]

\* The status lines and the summary as main prints them.
StatusOf(call) == IF call.has_operation_id THEN "OK" ELSE "MISSING operationID"

NonCompliantCount == Cardinality({k \in DOMAIN all_calls : ~all_calls[k].has_operation_id})

\* The argument list opened at offset s never closes.
Degenerate(text, s) == Closings(text, s) = {}

(***************************************************************************)
(* C5: a Callsite arises only where mountManager, the dot and a watched    *)
(* method name stand as one exact unit before optional whitespace and an   *)
(* opening parenthesis: neither the receiver nor the method name is part   *)
(* of a longer identifier.                                                 *)
(***************************************************************************)
C5_TokenUnit ==
    \A p \in Scanned :
        LET text == fs[p].text
            hits == Anchored(text)
        IN  /\ Len(CallsOf(p)) = Cardinality(hits)
            /\ \A i \in hits :
                  LET m     == CALL_PATTERN_match(text, i)
                      after == i + Len(PatternHead) + Len(m.group1)
                  IN  /\ \E k \in DOMAIN PatternMethods : m.group1 = PatternMethods[k]
                      /\ SubSeq(text, i + 1, after) = PatternHead \o m.group1
                      /\ \A j \in after..(m.end - 2) : At(text, j) \in Whitespace
                      /\ At(text, m.end - 1) = "("
                      /\ At(text, after) \notin IdentChars
                      /\ i > 0 => At(text, i - 1) \notin IdentChars

(***************************************************************************)
(* C6: a watched call over several lines is one Callsite whose call text   *)
(* runs from the opening to the matching closing parenthesis across the    *)
(* line breaks, compliant when the marker is on any of its lines, and      *)
(* whose line is 1 plus the newlines before the match start: the line of   *)
(* the method name, not the line of the marker.                            *)
(***************************************************************************)
C6_Multiline ==
    \A p \in Scanned :
        LET text == fs[p].text
            ms   == finditer(text, 0)
        IN  /\ Len(CallsOf(p)) = Len(ms)
            /\ \A k \in DOMAIN ms :
                  LET c      == CallsOf(p)[k]
                      open   == OpenOf(text, ms[k].start)
                      method == ms[k].start + Len(PatternHead)
                  IN  /\ c.line = 1 + Cardinality(Holding(text, "\n", 0, ms[k].start - 1))
                      /\ c.line = 1 + Cardinality(Holding(text, "\n", 0, method + Len(c.method) - 1))
                      /\ SubSeq(text, method + 1, method + Len(c.method)) = c.method
                      /\ c.call_text = SubSeq(text, open + 1, ListEnd(text, open))
                      /\ MarkerAt(c.call_text) # {} => c.has_operation_id
            /\ text = SampleMultiline =>
                  CallsOf(p) = << [file |-> p, method |-> Disconnect, line |-> 1,
                                   call_text |-> SubSeq(text, 24, Len(text)),
                                   has_operation_id |-> TRUE] >>
            /\ text = SampleMultilineLater =>
                  /\ Len(CallsOf(p)) = 1
                  /\ CallsOf(p)[1].line = 2
                  /\ CallsOf(p)[1].has_operation_id
                  /\ 1 + Cardinality(Holding(text, "\n", 0, Min(MarkerAt(text)))) = 4

C6_Witness ==
    /\ pc = "done"
    /\ fs = <<File(SampleMultilineLater)>>
    /\ Len(all_calls) = 1
    /\ all_calls[1].line = 2
    /\ Cardinality(Holding(all_calls[1].call_text, "\n", 0, Len(all_calls[1].call_text))) = 3
    /\ stdout[1].kind = "OK"

(***************************************************************************)
(* C7: with an existing root nothing is printed and no verdict given       *)
(* before every discovered file has been scanned and all its watched calls *)
(* collected; the report is one status line per Callsite, by file in       *)
(* discovery order and by occurrence within a file, then one summary       *)
(* counting the non-compliant Callsites (failure) or all Callsites         *)
(* (success); without Callsites only the notice is printed.                *)
(***************************************************************************)
C7_Report ==
    /\ (rootExists /\ (stdout # <<>> \/ stderr # <<>> \/ exitCode # -1)) =>
          /\ fileIdx = Len(swift_files)
          /\ Scanned = {p \in DOMAIN fs : fs[p].swift}
          /\ all_calls =
                Flatten([k \in 1..Len(swift_files) |->
                            collect_calls(swift_files[k], fs[swift_files[k]].text)])
    /\ \A i, j \in DOMAIN swift_files : i < j => swift_files[i] < swift_files[j]
    /\ \A i, j \in DOMAIN all_calls : i < j => all_calls[i].file <= all_calls[j].file
    /\ rootExists =>
          /\ printed <= Len(all_calls)
          /\ \A k \in 1..printed :
                /\ stdout[k].kind = StatusOf(all_calls[k])
                /\ stdout[k].file = all_calls[k].file
                /\ stdout[k].line = all_calls[k].line
                /\ stdout[k].method = all_calls[k].method
    /\ (rootExists /\ pc = "done") =>
          IF all_calls = <<>>
          THEN /\ stdout = <<Line("none", NoCall, <<>>, 0)>>
               /\ stderr = <<>>
          ELSE /\ printed = Len(all_calls)
               /\ IF NonCompliantCount > 0
                  THEN /\ Len(stdout) = Len(all_calls)
                       /\ stderr = <<Line("FAIL", NoCall, <<>>, NonCompliantCount)>>
                  ELSE /\ Len(stdout) = Len(all_calls) + 1
                       /\ stdout[Len(stdout)] = Line("PASS", NoCall, <<>>, Len(all_calls))
                       /\ stderr = <<>>

C7_Witness ==
    /\ pc = "done"
    /\ Len(swift_files) = 2
    /\ Len(all_calls) = 3
    /\ ~all_calls[1].has_operation_id
    /\ all_calls[1].file = 1
    /\ all_calls[3].file = 2
    /\ Len(stdout) = 3
    /\ stderr[1].count = 1

C9_OpenParen ==
    /\ \A p \in Scanned :
          LET text == fs[p].text
              ms   == finditer(text, 0)
          IN  \A k \in DOMAIN ms :
                  /\ find(text, "(", ms[k].start) = ms[k].end - 1
                  /\ Holding(text, "(", ms[k].start, ms[k].end - 1) = {ms[k].end - 1}
                  /\ k \in DOMAIN CallsOf(p)
                  /\ CallsOf(p)[k].call_text =
                        SubSeq(text, ms[k].end, ms[k].end - 1 + Len(CallsOf(p)[k].call_text))
    /\ \A k \in DOMAIN all_calls :
          /\ all_calls[k].call_text # <<>>
          /\ Head(all_calls[k].call_text) = "("
          /\ splitlines(all_calls[k].call_text) # <<>>
    /\ pc = "raised" => (fileIdx < Len(swift_files) /\ ~fs[swift_files[fileIdx + 1]].readable)

C9_Witness ==
    /\ printed = 1
    /\ fs = <<File(PatternHead \o Connect \o <<"\n", "(">>)>>
    /\ all_calls[1].call_text = <<"(">>
    /\ stdout[1].text = <<"(">>

(***************************************************************************)
(* C10: a file yields one Callsite per occurrence of the pattern, the      *)
(* occurrences never overlapping: the scan resumes right after the opening *)
(* parenthesis of a match, so a watched call inside the argument list of   *)
(* another, or after an unbalanced one, has its own Callsite; call texts   *)
(* may overlap, and an outer call is compliant on a marker anywhere in     *)
(* its call text.                                                          *)
(***************************************************************************)
C10_Occurrences ==
    \A p \in Scanned :
        LET text == fs[p].text
            hits == Anchored(text)
        IN  /\ Len(CallsOf(p)) = Cardinality(hits)
            /\ \A i, j \in hits : i < j => CALL_PATTERN_match(text, i).end <= j
            /\ \A k \in 1..Cardinality(hits) :
                  LET i    == Nth(hits, k)
                      open == OpenOf(text, i)
                      c    == CallsOf(p)[k]
                  IN  /\ c.method = CALL_PATTERN_match(text, i).group1
                      /\ c.call_text = SubSeq(text, open + 1, ListEnd(text, open))
                      /\ c.has_operation_id <=> (MarkerAt(c.call_text) # {})

C10_Witness ==
    /\ pc = "done"
    /\ fs = <<File(SampleNested)>>
    /\ Len(all_calls) = 2
    /\ all_calls[1].method = PatternMethods[5]
    /\ all_calls[2].method = PatternMethods[3]
    /\ all_calls[1].call_text = SubSeq(SampleNested, 30, Len(SampleNested))
    /\ all_calls[2].call_text = SubSeq(SampleNested, 57, Len(SampleNested) - 1)
    /\ all_calls[1].has_operation_id
    /\ all_calls[2].has_operation_id

====
